---- MODULE Spec2Model ----
(***************************************************************************)
(* Model of resacf.py: residence-time autocorrelation from a gmx select    *)
(* index file.  numpy arrays are modelled as functions with domain         *)
(* 0..n-1, so that every index of the model is the index of the source.    *)
(***************************************************************************)
EXTENDS Integers, Sequences, FiniteSets

VARIABLES
    \* --- the array functions called on their own (SpecSeq) ---
    bool_array,     \* the array handed to / mutated in place by the function
    input_array,    \* the caller's copy of the array before the first call
    prev_array,     \* the array as it was before the latest call
    param,          \* max_False_span (remove_small_False_spans) or delay
    op,             \* which call has been made on bool_array
    lengths_False,  \* get_lengths_of_True_spans(sequence, outer_spans=False)
    lengths_True,   \* get_lengths_of_True_spans(sequence, outer_spans=True)
    \* --- calc_acf_from_select_data (Spec) ---
    df,             \* the truncated table, atom columns only: df[frame][column]
    atom_listing,   \* pd.unique(df.values.ravel('K'))
    max_False_span, \* int(max_False_time / dt)
    n_blocks,
    outer_spans,
    delay,
    pc,             \* position in calc_acf_from_select_data
    block,          \* the block loop's variable
    atoms,          \* the atoms of the current block, atom_listing[block::n_blocks]
    atom_i,         \* position of the atom loop in atoms
    t,              \* the time grid
    acf,            \* the block's unnormalized buffer
    norm,           \* the block's normalization counter
    acf_blocks,     \* acf_blocks[block][frame], the normalized ACF per block
    acf_mean,
    acf_var,        \* the square of acf_std
    processed,      \* history: one record per executed atom-loop iteration
    \* --- add_acf_from_span_lengths called on its own (SpecAcf) ---
    acf0,           \* the buffer before the first call
    added           \* history: every span length passed so far, in call order

seqvars == <<bool_array, input_array, prev_array, param, op, lengths_False, lengths_True>>

mainvars == <<df, atom_listing, max_False_span, n_blocks, outer_spans, delay, pc,
              block, atoms, atom_i, norm, acf_blocks, acf_mean, acf_var, processed>>

bufvars == <<t, acf>>

acfvars == <<acf0, added>>

vars == <<seqvars, mainvars, bufvars, acfvars>>

\* ------------------------------------------------------------- bounds
MaxLen == 7
MaxParam == 7
MaxNeg == 2

\* ------------------------------------------------- numpy / Python idiom
Len0(a) == Cardinality(DOMAIN a)

EmptyArr == [k \in {} |-> 0]

Single(x) == [k \in {0} |-> x]

Pair(x, y) == [k \in {0, 1} |-> IF k = 0 THEN x ELSE y]

Hstack(a, b) ==
    [k \in 0..(Len0(a) + Len0(b) - 1) |->
        IF k < Len0(a) THEN a[k] ELSE b[k - Len0(a)]]

\* np.diff(a, n=1) of a boolean array: elementwise "differs from predecessor"
NpDiffBool(a) == [k \in 0..(Len0(a) - 2) |-> a[k + 1] # a[k]]

\* np.diff(a) of an integer array
NpDiffInt(a) == [k \in 0..(Len0(a) - 2) |-> a[k + 1] - a[k]]

RECURSIVE ArgwhereFrom(_, _)
ArgwhereFrom(d, i) ==
    IF i >= Len0(d) THEN EmptyArr
    ELSE IF d[i] THEN Hstack(Single(i), ArgwhereFrom(d, i + 1))
    ELSE ArgwhereFrom(d, i + 1)

\* np.argwhere(d).flatten(): the indices of the true entries, ascending
Argwhere(d) == ArgwhereFrom(d, 0)

AddScalar(a, c) == [k \in DOMAIN a |-> a[k] + c]

\* a Python slice bound on a length-n array: negative counts from the end
Clamp(n, i) ==
    IF i < 0 THEN (IF n + i < 0 THEN 0 ELSE n + i)
    ELSE IF i > n THEN n ELSE i

\* a[start:stop]
Slice(a, start, stop) ==
    LET s == Clamp(Len0(a), start)
        e == Clamp(Len0(a), stop)
    IN  [k \in 0..(e - s - 1) |-> a[s + k]]

\* a[start::step], start >= 0, step > 0
SliceStep(a, start, step) ==
    LET n == Len0(a)
        cnt == IF start >= n THEN 0 ELSE (n - start + step - 1) \div step
    IN  [k \in 0..(cnt - 1) |-> a[start + k * step]]

\* a[start:stop] = v
SetSlice(a, start, stop, v) ==
    LET s == Clamp(Len0(a), start)
        e == Clamp(Len0(a), stop)
    IN  [k \in DOMAIN a |-> IF s <= k /\ k < e THEN v ELSE a[k]]

RECURSIVE SumFrom(_, _)
SumFrom(a, i) == IF i >= Len0(a) THEN 0 ELSE a[i] + SumFrom(a, i + 1)

\* np.sum(a)
NpSum(a) == SumFrom(a, 0)

Min(x, y) == IF x < y THEN x ELSE y

\* jumps = np.argwhere(np.diff(bool_array, n=1)).flatten() + 1
Jumps(a) == AddScalar(Argwhere(NpDiffBool(a)), 1)

\* --------------------------------------------- get_lengths_of_True_spans
\* mutant: the offset is forgotten, every second gap from the first
get_lengths_NoOffset(a, outer) ==
    LET indices0 == Jumps(a)
        indices == IF outer
                   THEN Hstack(Hstack(Single(0), indices0), Single(Len0(a)))
                   ELSE indices0
    IN  IF Len0(indices) # 0
        THEN SliceStep(NpDiffInt(indices), 0, 2)
        ELSE EmptyArr

\* mutant: the sequence end is not added as a boundary
get_lengths_NoEnd(a, outer) ==
    LET indices0 == Jumps(a)
        indices == IF outer THEN Hstack(Single(0), indices0) ELSE indices0
    IN  IF Len0(indices) # 0
        THEN LET offset == IF a[indices[0]] THEN 0 ELSE 1
             IN  SliceStep(NpDiffInt(indices), offset, 2)
        ELSE EmptyArr

get_lengths_of_True_spans(a, outer) ==
    LET indices0 == Jumps(a)
        indices == IF outer
                   THEN Hstack(Hstack(Single(0), indices0), Single(Len0(a)))
                   ELSE indices0
        \* "if len(indices >= 2)": the length of the elementwise comparison
        cmp == [k \in DOMAIN indices |-> indices[k] >= 2]
    IN  IF Len0(cmp) # 0
        THEN LET offset == IF a[indices[0]] THEN 0 ELSE 1
             IN  SliceStep(NpDiffInt(indices), offset, 2)
        ELSE EmptyArr

\* ---------------------------------------------- remove_small_False_spans
\* mutant: only the first frame of a small False span is made True
RECURSIVE RemoveLoop_FirstFrame(_, _, _)
RemoveLoop_FirstFrame(a, spans, i) ==
    IF i >= Len0(spans) THEN a
    ELSE LET small_span == spans[i]
         IN  IF ~a[small_span[0]]
             THEN RemoveLoop_FirstFrame(
                      SetSlice(a, small_span[0], small_span[0] + 1, TRUE),
                      spans, i + 1)
             ELSE RemoveLoop_FirstFrame(a, spans, i + 1)

RECURSIVE RemoveLoop(_, _, _)
RemoveLoop(a, spans, i) ==
    IF i >= Len0(spans) THEN a
    ELSE LET small_span == spans[i]
         IN  IF ~a[small_span[0]]
             THEN RemoveLoop(SetSlice(a, small_span[0], small_span[1], TRUE),
                             spans, i + 1)
             ELSE RemoveLoop(a, spans, i + 1)

\* mutant: the threshold is exclusive
remove_small_False_spans_Strict(a, max_span) ==
    LET jumps == Jumps(a)
        dj == NpDiffInt(jumps)
        small_spans == Argwhere([k \in DOMAIN dj |-> dj[k] < max_span])
        spans == [k \in DOMAIN small_spans |->
                    Pair(jumps[small_spans[k]], jumps[small_spans[k] + 1])]
    IN  RemoveLoop(a, spans, 0)

remove_small_False_spans(a, max_span) ==
    LET jumps == Jumps(a)
        dj == NpDiffInt(jumps)
        small_spans == Argwhere([k \in DOMAIN dj |-> dj[k] <= max_span])
        spans == [k \in DOMAIN small_spans |->
                    Pair(jumps[small_spans[k]], jumps[small_spans[k] + 1])]
    IN  RemoveLoop(a, spans, 0)

\* ------------------------------------------------------ delay_true_spans
RECURSIVE DelayLoop(_, _, _, _)
DelayLoop(a, spans, n_delay, i) ==
    IF i >= Len0(spans) THEN a
    ELSE LET span == spans[i]
             len_array == Len0(a)
         IN  IF ~a[span[0]]
             THEN DelayLoop(SetSlice(a, span[0],
                                     Min(span[0] + n_delay, len_array), TRUE),
                            spans, n_delay, i + 1)
             ELSE DelayLoop(a, spans, n_delay, i + 1)

delay_true_spans(a, n_delay) ==
    LET len_array == Len0(a)
        jumps == Hstack(Jumps(a), Single(len_array))
        starts == Slice(jumps, 0, -1)
        stops == Slice(jumps, 1, Len0(jumps))
        spans == [k \in DOMAIN starts |-> Pair(starts[k], stops[k])]
    IN  DelayLoop(a, spans, n_delay, 0)

\* ---------------------------------------------- add_acf_from_span_lengths
\* mutant: the contribution is assigned, not added
AddSpan_Assign(tt, buf, span_len) ==
    LET e == Clamp(Len0(buf), span_len)
    IN  [k \in DOMAIN buf |-> IF k < e THEN span_len - tt[k] ELSE buf[k]]

\* line 94: acf[:span_len] += (span_len - t[:span_len])
AddSpan(tt, buf, span_len) ==
    LET e == Clamp(Len0(buf), span_len)
    IN  [k \in DOMAIN buf |->
            IF k < e THEN buf[k] + (span_len - tt[k]) ELSE buf[k]]

RECURSIVE AddLoop(_, _, _, _)
AddLoop(tt, buf, span_lengths, i) ==
    IF i >= Len0(span_lengths) THEN buf
    ELSE AddLoop(tt, AddSpan(tt, buf, span_lengths[i]), span_lengths, i + 1)

\* mutant: the first span length is skipped
add_acf_SkipFirst(tt, buf, span_lengths) ==
    AddLoop(tt, buf, span_lengths, 1)

add_acf_from_span_lengths(tt, buf, span_lengths) ==
    AddLoop(tt, buf, span_lengths, 0)

\* ------------------------------------------------------ float arithmetic
\* A float is an exact fraction [num, den] in lowest terms with den > 0, or
\* a non-finite value with den = 0: nan (num = 0), inf (1), -inf (-1).
Abs(x) == IF x < 0 THEN 0 - x ELSE x

Sign(x) == IF x > 0 THEN 1 ELSE IF x < 0 THEN 0 - 1 ELSE 0

RECURSIVE Gcd(_, _)
Gcd(x, y) == IF y = 0 THEN x ELSE Gcd(y, x % y)

Frac(n, d) ==
    LET g == Gcd(Abs(n), d)
    IN  [num |-> Sign(n) * (Abs(n) \div g), den |-> d \div g]

NaN == [num |-> 0, den |-> 0]

IsFinite(x) == x.den # 0

Float(n) == [num |-> n, den |-> 1]

\* numpy true division of integer-valued floats x / d (no exception on d = 0)
FDiv(x, d) ==
    IF d = 0 THEN [num |-> Sign(x), den |-> 0]
    ELSE Frac(x * Sign(d), Abs(d))

FAdd(x, y) ==
    IF x.den = 0 /\ y.den = 0 THEN (IF x.num = y.num THEN x ELSE NaN)
    ELSE IF x.den = 0 THEN x
    ELSE IF y.den = 0 THEN y
    ELSE Frac(x.num * y.den + y.num * x.den, x.den * y.den)

FNeg(x) == [num |-> 0 - x.num, den |-> x.den]

FMul(x, y) ==
    IF x.den = 0 \/ y.den = 0 THEN [num |-> Sign(x.num) * Sign(y.num), den |-> 0]
    ELSE Frac(x.num * y.num, x.den * y.den)

\* x / n for a count n > 0
FDivCount(x, n) == IF x.den = 0 THEN x ELSE Frac(x.num, x.den * n)

RECURSIVE ColSumFrom(_, _, _)
ColSumFrom(rows, i, b) ==
    IF b >= Len0(rows) THEN Float(0)
    ELSE FAdd(rows[b][i], ColSumFrom(rows, i, b + 1))

\* blocks.mean(axis=0)
NpMean(rows, n_frames) ==
    [i \in 0..(n_frames - 1) |-> FDivCount(ColSumFrom(rows, i, 0), Len0(rows))]

\* blocks.std(axis=0) ** 2 = mean(abs(x - x.mean()) ** 2), divisor len(rows)
NpVar(rows, n_frames) ==
    LET m == NpMean(rows, n_frames)
        dev == [b \in DOMAIN rows |->
                  [i \in 0..(n_frames - 1) |->
                      LET d == FAdd(rows[b][i], FNeg(m[i])) IN FMul(d, d)]]
    IN  NpMean(dev, n_frames)

\* -------------------------------------------- calc_acf_from_select_data
\* bounds of the inputs
MaxFrames == 2
MaxAtom == 2
MaxBlocks == 2
MaxFalseSpan == 1
MaxBuf == 3
MaxAdded == 3
MaxInitAcf == 1

\* the missing value that pads short rows (never an atom identifier)
NA == 0

\* a row of the index file: its atoms ascending, padded to the table width
Rows(w) ==
    {row \in [0..(w - 1) -> 0..MaxAtom] :
        \A k \in 0..(w - 2) :
            row[k + 1] = NA \/ (row[k] # NA /\ row[k] < row[k + 1])}

Tables == UNION {[0..(f - 1) -> Rows(w)] : f \in 0..MaxFrames, w \in 0..MaxAtom}

Width(table) == IF Len0(table) = 0 THEN 0 ELSE Len0(table[0])

\* df.values.ravel('K'): the values in memory order, which for a 2-d frame is
\* row by row ("C") or column by column ("F") depending on how pandas built it
Ravel(table, order) ==
    LET f == Len0(table)
        w == Width(table)
    IN  [k \in 0..(f * w - 1) |->
            IF order = "C" THEN table[k \div w][k % w]
            ELSE table[k % f][k \div f]]

RECURSIVE UniqueFrom(_, _, _)
UniqueFrom(flat, i, seen) ==
    IF i >= Len0(flat) THEN seen
    ELSE IF \E k \in DOMAIN seen : seen[k] = flat[i]
         THEN UniqueFrom(flat, i + 1, seen)
         ELSE UniqueFrom(flat, i + 1, Hstack(seen, Single(flat[i])))

\* pd.unique: the distinct values in order of first appearance
Unique(flat) == UniqueFrom(flat, 0, EmptyArr)

\* mutant: the stride is forgotten, [block:]
BlockAtoms_NoStride(listing, b, n) == SliceStep(listing, b, 1)

\* line 122: pd.unique(...)[block::n_blocks]
BlockAtoms(listing, b, n) == SliceStep(listing, b, n)

\* line 124: (df == atom).any(axis=1); a missing value equals nothing
Selected(table, atom) ==
    [i \in DOMAIN table |->
        atom # NA /\ \E k \in DOMAIN table[i] : table[i][k] = atom]

\* lines 126-130
ApplyGapPolicy(selected, max_span, use_delay) ==
    IF max_span > 0
    THEN IF use_delay THEN delay_true_spans(selected, max_span)
         ELSE remove_small_False_spans(selected, max_span)
    ELSE selected

Zeros(n) == [i \in 0..(n - 1) |-> 0]

Arange(n) == [i \in 0..(n - 1) |-> i]

\* mutant: the buffer is divided by the number of frames
NormalizeAcf_ByFrames(buf, nrm) == [i \in DOMAIN buf |-> FDiv(buf[i], Len0(buf))]

\* line 137: acf.astype(np.float) / norm
NormalizeAcf(buf, nrm) == [i \in DOMAIN buf |-> FDiv(buf[i], nrm)]

SeqIdle ==
    /\ bool_array = EmptyArr /\ input_array = EmptyArr /\ prev_array = EmptyArr
    /\ param = 0 /\ op = "idle"
    /\ lengths_False = EmptyArr /\ lengths_True = EmptyArr

MainIdle ==
    /\ df = EmptyArr /\ atom_listing = EmptyArr
    /\ max_False_span = 0 /\ n_blocks = 1 /\ outer_spans = FALSE /\ delay = FALSE
    /\ pc = "idle" /\ block = 0 /\ atoms = EmptyArr /\ atom_i = 0 /\ norm = 0
    /\ acf_blocks = EmptyArr /\ acf_mean = EmptyArr /\ acf_var = EmptyArr
    /\ processed = << >>

AcfIdle == acf0 = EmptyArr /\ added = << >>

\* the state at line 115, the table parsed and truncated to n_rows frames
Init ==
    /\ df \in Tables
    /\ \E order \in {"C", "F"} : atom_listing = Unique(Ravel(df, order))
    /\ max_False_span \in 0..MaxFalseSpan
    /\ n_blocks \in 1..MaxBlocks
    /\ outer_spans \in BOOLEAN
    /\ delay \in BOOLEAN
    /\ t = Arange(Len0(df))
    /\ acf_blocks = [b \in 0..(n_blocks - 1) |-> [i \in DOMAIN df |-> Float(0)]]
    /\ pc = "block"
    /\ block = 0
    /\ atoms = EmptyArr /\ atom_i = 0
    /\ acf = EmptyArr /\ norm = 0
    /\ acf_mean = EmptyArr /\ acf_var = EmptyArr
    /\ processed = << >>
    /\ SeqIdle /\ AcfIdle

\* lines 117-122: the head of the block loop
BlockStart ==
    /\ pc = "block"
    /\ block < n_blocks
    /\ acf' = Zeros(Len0(t))
    /\ norm' = 0
    /\ atoms' = BlockAtoms(atom_listing, block, n_blocks)
    /\ atom_i' = 0
    /\ pc' = "atom"
    /\ UNCHANGED <<df, atom_listing, max_False_span, n_blocks, outer_spans, delay,
                   block, t, acf_blocks, acf_mean, acf_var, processed>>
    /\ UNCHANGED <<seqvars, acfvars>>

\* lines 122-135: one iteration of the atom loop (np.bool and np.float are
\* the aliases of bool and float of the numpy releases that still have them)
ProcessAtom ==
    /\ pc = "atom"
    /\ atom_i < Len0(atoms)
    /\ LET atom == atoms[atom_i]
           selected == ApplyGapPolicy(Selected(df, atom), max_False_span, delay)
           span_lengths == get_lengths_of_True_spans(selected, outer_spans)
       IN  /\ Len0(selected) > 0
           /\ norm' = norm + NpSum(span_lengths)
           /\ acf' = add_acf_from_span_lengths(t, acf, span_lengths)
           /\ processed' = Append(processed,
                  [atom |-> atom, block |-> block, span_lengths |-> span_lengths])
    /\ atom_i' = atom_i + 1
    /\ UNCHANGED <<df, atom_listing, max_False_span, n_blocks, outer_spans, delay,
                   pc, block, atoms, t, acf_blocks, acf_mean, acf_var>>
    /\ UNCHANGED <<seqvars, acfvars>>

\* lines 136-138: the atom loop is exhausted; normalize and store the block
NormalizeBlock ==
    /\ pc = "atom"
    /\ atom_i >= Len0(atoms)
    /\ acf_blocks' = [acf_blocks EXCEPT ![block] = NormalizeAcf(acf, norm)]
    /\ block' = block + 1
    /\ pc' = IF block + 1 < n_blocks THEN "block" ELSE "reduce"
    /\ UNCHANGED <<df, atom_listing, max_False_span, n_blocks, outer_spans, delay,
                   atoms, atom_i, t, acf, norm, acf_mean, acf_var, processed>>
    /\ UNCHANGED <<seqvars, acfvars>>

\* lines 140-145: block averaging and the return; dt is the frame spacing of
\* the file, which nothing before line 144 reads once n_rows and
\* max_False_span are fixed
Reduce ==
    /\ pc = "reduce"
    /\ acf_mean' = NpMean(acf_blocks, Len0(t))
    /\ acf_var' = NpVar(acf_blocks, Len0(t))
    /\ \E dt \in {1, 2} : t' = [i \in DOMAIN t |-> t[i] * dt]
    /\ pc' = "done"
    /\ UNCHANGED <<df, atom_listing, max_False_span, n_blocks, outer_spans, delay,
                   block, atoms, atom_i, acf, norm, acf_blocks, processed>>
    /\ UNCHANGED <<seqvars, acfvars>>

Next == BlockStart \/ ProcessAtom \/ NormalizeBlock \/ Reduce

Spec == Init /\ [][Next]_vars

\* ------------------------------------------------------------- SpecSeq
BoolArrays(n) == [0..(n - 1) -> BOOLEAN]

SeqInit ==
    /\ \E n \in 0..MaxLen : bool_array \in BoolArrays(n)
    /\ input_array = bool_array
    /\ prev_array = bool_array
    /\ param \in (0 - MaxNeg)..MaxParam
    /\ op = "init"
    /\ lengths_False = EmptyArr
    /\ lengths_True = EmptyArr
    /\ MainIdle /\ AcfIdle
    /\ t = EmptyArr /\ acf = EmptyArr

\* test_get_lengths_of_True_spans, lines 20-26: both modes on one sequence
CallGetLengths ==
    /\ op = "init"
    /\ Len0(bool_array) > 0
    /\ lengths_False' = get_lengths_of_True_spans(bool_array, FALSE)
    /\ lengths_True' = get_lengths_of_True_spans(bool_array, TRUE)
    /\ op' = "lengths"
    /\ UNCHANGED <<bool_array, input_array, prev_array, param>>
    /\ UNCHANGED <<mainvars, bufvars, acfvars>>

CallRemove ==
    /\ op \in {"init", "remove"}
    /\ bool_array' = remove_small_False_spans(bool_array, param)
    /\ prev_array' = bool_array
    /\ op' = IF op = "init" THEN "remove" ELSE "remove2"
    /\ UNCHANGED <<input_array, param, lengths_False, lengths_True>>
    /\ UNCHANGED <<mainvars, bufvars, acfvars>>

CallDelay ==
    /\ op = "init"
    /\ bool_array' = delay_true_spans(bool_array, param)
    /\ prev_array' = bool_array
    /\ op' = "delay"
    /\ UNCHANGED <<input_array, param, lengths_False, lengths_True>>
    /\ UNCHANGED <<mainvars, bufvars, acfvars>>

SeqNext == CallGetLengths \/ CallRemove \/ CallDelay

SpecSeq == SeqInit /\ [][SeqNext]_vars

\* ------------------------------------------------------------- SpecAcf
AcfInit ==
    /\ \E f \in 1..MaxBuf :
          /\ t = Arange(f)
          /\ acf0 \in [0..(f - 1) -> 0..MaxInitAcf]
    /\ acf = acf0
    /\ added = << >>
    /\ SeqIdle /\ MainIdle

\* one call add_acf_from_span_lengths(t, acf, span_lengths)
CallAddAcf ==
    \E n \in 0..MaxAdded :
        \E span_lengths \in [0..(n - 1) -> 0..Len0(t)] :
            /\ Len(added) + n <= MaxAdded
            /\ acf' = add_acf_from_span_lengths(t, acf, span_lengths)
            /\ added' = added \o [k \in 1..n |-> span_lengths[k - 1]]
            /\ UNCHANGED <<t, acf0>>
            /\ UNCHANGED <<seqvars, mainvars>>

SpecAcf == AcfInit /\ [][CallAddAcf]_vars

\* ------------------------------------------- runs of a boolean sequence
\* [s, e) is a maximal run of value v in a
IsRun(a, s, e, v) ==
    /\ 0 <= s /\ s < e /\ e <= Len0(a)
    /\ \A k \in s..(e - 1) : a[k] = v
    /\ (s = 0 \/ a[s - 1] # v)
    /\ (e = Len0(a) \/ a[e] # v)

Runs(a, v) == {r \in (0..Len0(a)) \X (0..Len0(a)) : IsRun(a, r[1], r[2], v)}

InnerRuns(a, v) == {r \in Runs(a, v) : r[1] > 0 /\ r[2] < Len0(a)}

\* lens lists, left to right, the lengths of exactly the runs in rs
ListsRuns(lens, rs) ==
    /\ Len0(lens) = Cardinality(rs)
    /\ \A r \in rs :
          lens[Cardinality({q \in rs : q[1] < r[1]})] = r[2] - r[1]

\* C1: get_lengths_of_True_spans returns, left to right, the lengths of all
\* maximal True-runs with outer_spans=True, and of exactly the maximal
\* True-runs touching neither end with outer_spans=False.
C1_SpanLengths ==
    op = "lengths" =>
        /\ ListsRuns(lengths_True, Runs(input_array, TRUE))
        /\ ListsRuns(lengths_False, InnerRuns(input_array, TRUE))

C1_Witness ==
    /\ op = "lengths"
    /\ Len0(lengths_False) >= 1
    /\ Len0(lengths_True) = Len0(lengths_False) + 2
    /\ lengths_True[0] # lengths_True[1]

\* C2 (as claimed): after delay_true_spans(seq, delay), delay >= 0, frame i
\* is True iff it was True in the input or is one of the first `delay`
\* frames of a maximal False-run of the input, for every False-run.
C2_DelayEveryFalseRun ==
    (op = "delay" /\ param >= 0) =>
        /\ DOMAIN bool_array = DOMAIN input_array
        /\ \A i \in DOMAIN input_array :
              bool_array[i] <=>
                 \/ input_array[i]
                 \/ \E r \in Runs(input_array, FALSE) :
                       r[1] <= i /\ i < r[2] /\ i - r[1] < param

\* C3: after remove_small_False_spans(seq, max_gap), frame i is True iff it
\* was True or lies in a maximal False-run of length <= max_gap that touches
\* neither end of the sequence; the length is unchanged, and max_gap <= 0
\* changes nothing.
C3_FillSmallGaps ==
    op = "remove" =>
        /\ DOMAIN bool_array = DOMAIN input_array
        /\ \A i \in DOMAIN input_array :
              bool_array[i] <=>
                 \/ input_array[i]
                 \/ \E r \in InnerRuns(input_array, FALSE) :
                       r[1] <= i /\ i < r[2] /\ r[2] - r[1] <= param
        /\ (param <= 0 => bool_array = input_array)

C3_Witness ==
    /\ op = "remove"
    /\ bool_array # input_array
    /\ \E r \in InnerRuns(input_array, FALSE) : ~bool_array[r[1]]
    /\ ~bool_array[0]

\* C7: sum(lengths, outer_spans=False) <= sum(lengths, outer_spans=True)
\* <= len(seq), and the outer_spans=True sum is the number of True frames.
C7_SpanSums ==
    op = "lengths" =>
        /\ NpSum(lengths_False) <= NpSum(lengths_True)
        /\ NpSum(lengths_True) <= Len0(input_array)
        /\ NpSum(lengths_True) =
              Cardinality({i \in DOMAIN input_array : input_array[i]})

C7_Witness ==
    /\ op = "lengths"
    /\ 0 < NpSum(lengths_False)
    /\ NpSum(lengths_False) < NpSum(lengths_True)
    /\ NpSum(lengths_True) < Len0(input_array)

\* C8: remove_small_False_spans is idempotent: a second application to the
\* result of the first changes no frame.
C8_RemoveIdempotent ==
    op = "remove2" => bool_array = prev_array

C8_Witness ==
    /\ op = "remove2"
    /\ prev_array # input_array
    /\ \E r \in InnerRuns(prev_array, FALSE) : TRUE

\* ------------------------------------------------- the block computation
InRun == pc \in {"block", "atom", "reduce", "done"}

\* the history records of block b
OfBlock(b) == {j \in 1..Len(processed) : processed[j].block = b}

RECURSIVE BlockNormFrom(_, _)
BlockNormFrom(b, j) ==
    IF j > Len(processed) THEN 0
    ELSE (IF processed[j].block = b THEN NpSum(processed[j].span_lengths) ELSE 0)
         + BlockNormFrom(b, j + 1)

\* the sum of every span length added in block b
BlockNorm(b) == BlockNormFrom(b, 1)

BlockSpans(b) ==
    UNION {{processed[j].span_lengths[k] : k \in DOMAIN processed[j].span_lengths} :
              j \in OfBlock(b)}

\* the longest span added in block b (0 if none)
BlockLongest(b) ==
    IF BlockSpans(b) = {} THEN 0
    ELSE CHOOSE m \in BlockSpans(b) : \A x \in BlockSpans(b) : x <= m

\* x <= y for finite floats
FLeq(x, y) == x.num * y.den <= y.num * x.den

\* C4 (as claimed): a block whose normalization counter is zero makes the
\* computation fail: no later step runs on, and no result holds nan or inf.
C4_ZeroNormFails ==
    InRun =>
        /\ \A b \in 0..(block - 1) :
              \A i \in DOMAIN acf_blocks[b] : IsFinite(acf_blocks[b][i])
        /\ pc = "done" =>
              \A i \in DOMAIN acf_mean :
                  IsFinite(acf_mean[i]) /\ IsFinite(acf_var[i])

\* every frame of the table selects the same two atoms, and there is a frame
TwoAtomsEveryFrame ==
    /\ Len0(df) >= 1
    /\ \E a \in 1..MaxAtom : \E b \in (a + 1)..MaxAtom :
          \A i \in DOMAIN df :
              {df[i][k] : k \in DOMAIN df[i]} \ {NA} = {a, b}

EndToEndResult ==
    LET L == Len0(df)
    IN  \A i \in DOMAIN acf_mean :
            /\ FMul(acf_mean[i], Float(L)) = Float(L - i)
            /\ acf_var[i] = Float(0)

\* C5 (as claimed): two atoms selected in every one of L frames, n_blocks=1,
\* max_False_time=0, any outer_spans: acf_mean[t] * L = L - t and std = 0.
C5_EndToEndAnyOuter ==
    (pc = "done" /\ TwoAtomsEveryFrame /\ n_blocks = 1 /\ max_False_span = 0)
        => EndToEndResult

\* C5 (amended): the same with outer_spans=True.
C5_EndToEndOuter ==
    (pc = "done" /\ TwoAtomsEveryFrame /\ n_blocks = 1 /\ max_False_span = 0
        /\ outer_spans)
        => EndToEndResult

C5_Witness ==
    /\ pc = "done" /\ TwoAtomsEveryFrame /\ n_blocks = 1 /\ max_False_span = 0
    /\ outer_spans
    /\ Len0(df) >= 2
    /\ acf_mean[1] = Frac(Len0(df) - 1, Len0(df))

\* C9: the atom at position k of the listing is processed in block
\* k mod n_blocks only, every atom exactly once over the run; each block
\* starts from a zero buffer and counter, which receive the contributions of
\* that block's atoms only.
C9_BlockPartition ==
    InRun =>
        /\ \A j \in 1..Len(processed) :
              \E k \in DOMAIN atom_listing :
                  /\ atom_listing[k] = processed[j].atom
                  /\ processed[j].block = k % n_blocks
        /\ \A j1 \in 1..Len(processed) : \A j2 \in 1..Len(processed) :
              processed[j1].atom = processed[j2].atom => j1 = j2
        /\ pc \in {"reduce", "done"} =>
              \A k \in DOMAIN atom_listing :
                  \E j \in 1..Len(processed) :
                      processed[j].atom = atom_listing[k]
        /\ (pc = "atom" /\ atom_i = 0) => (norm = 0 /\ acf = Zeros(Len0(t)))
        /\ pc = "atom" => norm = BlockNorm(block)

C9_Witness ==
    /\ pc = "done"
    /\ n_blocks >= 2
    /\ Len0(atom_listing) >= 3
    /\ BlockNorm(0) > 0
    /\ BlockNorm(1) > 0
    /\ BlockNorm(0) # BlockNorm(1)

\* C10: after each atom of a block, acf[0] = norm = the sum of the span
\* lengths added so far, acf is non-increasing and non-negative, and zero
\* from the longest span added so far on; so a block with norm > 0 has a
\* normalized ACF that is 1 at lag 0, within [0, 1] and non-increasing.
C10_AcfShape ==
    /\ pc = "atom" =>
          /\ norm = BlockNorm(block)
          /\ Len0(acf) > 0 => acf[0] = norm
          /\ \A i \in DOMAIN acf :
                /\ acf[i] >= 0
                /\ (i + 1) \in DOMAIN acf => acf[i] >= acf[i + 1]
                /\ i >= BlockLongest(block) => acf[i] = 0
    /\ InRun =>
          \A b \in 0..(block - 1) :
              BlockNorm(b) > 0 =>
                  \A i \in DOMAIN acf_blocks[b] :
                      /\ IsFinite(acf_blocks[b][i])
                      /\ i = 0 => acf_blocks[b][i] = Float(1)
                      /\ FLeq(Float(0), acf_blocks[b][i])
                      /\ FLeq(acf_blocks[b][i], Float(1))
                      /\ (i + 1) \in DOMAIN acf_blocks[b] =>
                            FLeq(acf_blocks[b][i + 1], acf_blocks[b][i])

C10_Witness ==
    /\ pc = "atom"
    /\ atom_i >= 1
    /\ Len0(acf) >= 2
    /\ acf[0] > acf[1]
    /\ acf[1] > 0
    /\ block >= 1
    /\ BlockNorm(0) > 0

\* ---------------------------------------- add_acf_from_span_lengths alone
\* the contribution of one span of length L at lag i
Triangle(L, i) == IF i < L THEN L - i ELSE 0

\* how many of the span lengths passed so far equal L
TimesAdded(L) == Cardinality({j \in 1..Len(added) : added[j] = L})

RECURSIVE BagSum(_, _)
BagSum(L, i) ==
    IF L < 0 THEN 0 ELSE TimesAdded(L) * Triangle(L, i) + BagSum(L - 1, i)

\* C6: on the grid t = 0..F-1, one span length L adds L - i to acf[i] for
\* i < L and nothing beyond; the buffer after any calls is the initial buffer
\* plus the sum of the single contributions, whatever the order or the split
\* into calls.
C6_AcfAdditive ==
    DOMAIN acf0 = DOMAIN acf =>
        \A i \in DOMAIN acf :
            acf[i] = acf0[i] + BagSum(Len0(acf), i)

C6_Witness ==
    /\ Len(added) = 3
    /\ added[1] > added[2]
    /\ added[3] > added[1]
    /\ added[2] > 0
    /\ Len0(acf) >= added[3]
    /\ \E i \in DOMAIN acf0 : acf0[i] > 0
====
